---- MODULE Spec2Model ----
(***************************************************************************)
(* Streaming aggregation pipeline of analysis/generate_flight_delay_report *)
(* (column resolution, chunk normalisation, additive merge).               *)
(*                                                                         *)
(* Representation.  A CSV cell is a piece of text.  Floating point values  *)
(* are fixed-point integers in hundredths (20 minutes = 2000), integer     *)
(* (int64) values are plain integers.  A numeric cell of a data frame is   *)
(* a set with at most one element: {} is NaN, {v} is the value v.  A data  *)
(* frame is a record [columns, rows]; a row is a function on the columns.  *)
(***************************************************************************)
EXTENDS Integers, Sequences, FiniteSets, Bags, TLC

(* ---------------------------- bounds ----------------------------------- *)
MaxFiles == 2
MaxChunkSize == 2
MaxRows == 2
MaxSeries == 3
MaxCount == 2

(* ------------------------ generic helpers ------------------------------ *)
Range(s) == {s[i] : i \in 1..Len(s)}

SeqsUpTo(S, n) == UNION {[1..k -> S] : k \in 0..n}

RECURSIVE SumSeq(_)
SumSeq(s) == IF s = <<>> THEN 0 ELSE Head(s) + SumSeq(Tail(s))

RECURSIVE SumSet(_, _)
SumSet(S, f) ==
    IF S = {} THEN 0
    ELSE LET x == CHOOSE y \in S : TRUE IN f[x] + SumSet(S \ {x}, f)

(* --------------------- module level configuration ---------------------- *)
DELAY_CAUSE_COLUMNS ==
    [CARRIER_DELAY |-> "carrier_delay_sum",
     WEATHER_DELAY |-> "weather_delay_sum",
     NAS_DELAY |-> "nas_delay_sum",
     SECURITY_DELAY |-> "security_delay_sum",
     LATE_AIRCRAFT_DELAY |-> "late_aircraft_delay_sum"]

COLUMN_ALIASES ==
    [FL_DATE |-> <<"FL_DATE", "FlightDate">>,
     OP_CARRIER |-> <<"OP_CARRIER", "IATA_Code_Marketing_Airline",
                      "Marketing_Airline_Network", "IATA_Code_Operating_Airline",
                      "Operating_Airline", "Operating_Airline ">>,
     OP_UNIQUE_CARRIER |-> <<"OP_UNIQUE_CARRIER", "DOT_ID_Marketing_Airline",
                             "DOT_ID_Operating_Airline">>,
     ORIGIN |-> <<"ORIGIN", "Origin">>,
     DEST |-> <<"DEST", "Dest">>,
     ARR_DELAY |-> <<"ARR_DELAY", "ArrDelay", "ArrDelayMinutes">>,
     DEP_DELAY |-> <<"DEP_DELAY", "DepDelay", "DepDelayMinutes">>,
     CANCELLED |-> <<"CANCELLED", "Cancelled">>,
     DIVERTED |-> <<"DIVERTED", "Diverted">>,
     CARRIER_DELAY |-> <<"CARRIER_DELAY", "CarrierDelay">>,
     WEATHER_DELAY |-> <<"WEATHER_DELAY", "WeatherDelay">>,
     NAS_DELAY |-> <<"NAS_DELAY", "NASDelay">>,
     SECURITY_DELAY |-> <<"SECURITY_DELAY", "SecurityDelay">>,
     LATE_AIRCRAFT_DELAY |-> <<"LATE_AIRCRAFT_DELAY", "LateAircraftDelay">>]

BASE_METRIC_FIELDS ==
    <<"flights", "arr_delay_sum", "arr_delay_count", "arr_delay_over_15",
      "dep_delay_sum", "dep_delay_count", "dep_delay_over_15",
      "cancelled", "diverted">>

METRIC_FIELDS ==
    Range(BASE_METRIC_FIELDS) \cup {DELAY_CAUSE_COLUMNS[c] : c \in DOMAIN DELAY_CAUSE_COLUMNS}

COUNT_FIELDS ==
    {"flights", "arr_delay_count", "arr_delay_over_15", "dep_delay_count",
     "dep_delay_over_15", "cancelled", "diverted"}

SUM_FIELDS == METRIC_FIELDS \ COUNT_FIELDS

COLUMN_TO_METRICS ==
    [c \in {"ARR_DELAY", "DEP_DELAY", "CANCELLED", "DIVERTED"} \cup DOMAIN DELAY_CAUSE_COLUMNS |->
        CASE c = "ARR_DELAY" -> {"arr_delay_sum", "arr_delay_count", "arr_delay_over_15"}
          [] c = "DEP_DELAY" -> {"dep_delay_sum", "dep_delay_count", "dep_delay_over_15"}
          [] c = "CANCELLED" -> {"cancelled"}
          [] c = "DIVERTED" -> {"diverted"}
          [] OTHER -> {DELAY_CAUSE_COLUMNS[c]}]

DESIRED_COLUMNS ==
    <<"FL_DATE", "OP_CARRIER", "OP_UNIQUE_CARRIER", "ORIGIN", "DEST",
      "ARR_DELAY", "DEP_DELAY", "CANCELLED", "DIVERTED",
      "CARRIER_DELAY", "WEATHER_DELAY", "NAS_DELAY", "SECURITY_DELAY",
      "LATE_AIRCRAFT_DELAY">>

(* new_stats: every metric field zero *)
new_stats == [field \in METRIC_FIELDS |-> 0]

(* ------------------------- Column Resolver ----------------------------- *)
(* the inner loop "for alias in aliases: if alias in columns: ...; break": *)
(* the set holding the first alias found from position i on, {} if none    *)
(* variant: the last alias present wins *)
last_alias(aliases, columns, i) ==
    LET present == {j \in i..Len(aliases) : aliases[j] \in columns}
    IN IF present = {} THEN {}
       ELSE {aliases[CHOOSE j \in present : \A k \in present : k <= j]}

RECURSIVE first_alias(_, _, _)
first_alias(aliases, columns, i) ==
    IF i > Len(aliases) THEN {}
    ELSE IF aliases[i] \in columns THEN {aliases[i]}
    ELSE first_alias(aliases, columns, i + 1)

(* variant: the aliases are tried for the date column only *)
resolve_column_map_date_only(columns) ==
    [canonical \in {c \in Range(DESIRED_COLUMNS) :
                        IF c = "FL_DATE"
                        THEN first_alias(COLUMN_ALIASES[c], columns, 1) # {}
                        ELSE c \in columns} |->
        IF canonical = "FL_DATE"
        THEN CHOOSE a \in first_alias(COLUMN_ALIASES[canonical], columns, 1) : TRUE
        ELSE canonical]

(* the column_map built by the outer loop over DESIRED_COLUMNS *)
resolve_column_map(columns) ==
    [canonical \in {c \in Range(DESIRED_COLUMNS) :
                        first_alias(COLUMN_ALIASES[c], columns, 1) # {}} |->
        CHOOSE a \in first_alias(COLUMN_ALIASES[canonical], columns, 1) : TRUE]

(* variant: only the canonical spelling of the date column is accepted *)
fl_date_missing_strict(cmap) ==
    "FL_DATE" \notin DOMAIN cmap \/ cmap["FL_DATE"] # "FL_DATE"

(* the test guarding "raise ValueError(FL_DATE column not found)" *)
fl_date_missing(cmap) == "FL_DATE" \notin DOMAIN cmap

(* usecols = sorted(set(column_map.values())), as a set *)
resolve_usecols(cmap) == {cmap[c] : c \in DOMAIN cmap}

(* --------------------------- text of cells ----------------------------- *)
(* the texts that parse as numbers, with their value in hundredths *)
NumberText ==
    ("20" :> 2000) @@ ("15.01" :> 1501) @@ ("15" :> 1500) @@ ("10" :> 1000) @@
    ("7" :> 700) @@ ("5" :> 500) @@ ("1" :> 100) @@ ("0" :> 0) @@ ("-3" :> -300)

(* the texts that parse as dates, with their calendar month *)
PeriodText ==
    ("2024-01-05" :> "2024-01") @@ ("2024-01-20" :> "2024-01") @@
    ("2024-02-01" :> "2024-02")

(* str.strip().str.upper() on the texts that it changes *)
StripUpperText ==
    ("y" :> "Y") @@ ("yes" :> "YES") @@ ("Yes" :> "YES") @@ ("True" :> "TRUE") @@
    ("t" :> "T") @@ ("False" :> "FALSE") @@ ("maybe" :> "MAYBE") @@ ("nan" :> "NAN")

(* texts that read_csv turns into booleans *)
BoolText == {"True", "False"}

(* pd.to_numeric(errors="coerce") of one cell: {} is NaN *)
to_numeric(cell) == IF cell \in DOMAIN NumberText THEN {NumberText[cell]} ELSE {}

(* pd.to_datetime(errors="coerce") of one cell: {} is NaT *)
to_datetime(cell) == IF cell \in DOMAIN PeriodText THEN {cell} ELSE {}

(* .dt.to_period("M") of a parsed date *)
to_period(date) == PeriodText[date]

(* .astype("int64") of a float: truncation towards zero *)
astype_int64(v) == IF v >= 0 THEN v \div 100 ELSE -((-v) \div 100)

(* .astype(str) of one cell: an empty cell is NaN and prints as nan *)
astype_str(cell) == IF cell = "" THEN "nan" ELSE cell

strip_upper(text) == IF text \in DOMAIN StripUpperText THEN StripUpperText[text] ELSE text

(* the mapping dict of normalize_flag *)
(* variant: only the long spellings are taken as true *)
flag_mapping_long == {"YES", "TRUE", "1"}

flag_mapping == {"Y", "YES", "TRUE", "T", "1"}

(* ---------------------------- data frames ------------------------------ *)
column(df, col) == [i \in 1..Len(df.rows) |-> df.rows[i][col]]

with_column(df, col, vals) ==
    [columns |-> df.columns \cup {col},
     rows |-> [i \in 1..Len(df.rows) |-> (col :> vals[i]) @@ df.rows[i]]]

(* chunk.rename(columns=rename_map), rename_map the inverse of the column map *)
rename(df, cmap) ==
    [columns |-> {c \in DOMAIN cmap : cmap[c] \in df.columns},
     rows |-> [i \in 1..Len(df.rows) |->
                  [c \in {d \in DOMAIN cmap : cmap[d] \in df.columns} |-> df.rows[i][cmap[c]]]]]

(* --------------------------- Chunk Normalizer -------------------------- *)
is_bool_dtype(series) == \A i \in 1..Len(series) : series[i] \in BoolText

normalize_flag(series) ==
    IF series = <<>> THEN <<>>
    ELSE IF is_bool_dtype(series)
         THEN [i \in 1..Len(series) |-> IF series[i] = "True" THEN 1 ELSE 0]
    ELSE IF \E i \in 1..Len(series) : to_numeric(series[i]) # {}
         THEN [i \in 1..Len(series) |->
                  IF to_numeric(series[i]) = {} THEN 0
                  ELSE astype_int64(CHOOSE v \in to_numeric(series[i]) : TRUE)]
    ELSE [i \in 1..Len(series) |->
             IF strip_upper(astype_str(series[i])) \in flag_mapping THEN 1 ELSE 0]

(* variant: the threshold is inclusive *)
over_15_inclusive(cell) == IF \E v \in cell : v >= 15 * 100 THEN 1 ELSE 0

(* (series > 15).astype("int64") of one cell; NaN > 15 is false *)
over_15(cell) == IF \E v \in cell : v > 15 * 100 THEN 1 ELSE 0

(* variant: a delay that does not parse is taken as zero *)
coerce_delay_zero(series) ==
    [i \in 1..Len(series) |-> IF to_numeric(series[i]) = {} THEN {0} ELSE to_numeric(series[i])]

(* pd.to_numeric(errors="coerce") of a delay column *)
coerce_delay(series) == [i \in 1..Len(series) |-> to_numeric(series[i])]

(* chunk.dropna(subset=["FL_DATE"]) after the date has been parsed *)
drop_bad_dates(df) ==
    [columns |-> df.columns,
     rows |-> SelectSeq(df.rows, LAMBDA r : to_datetime(r["FL_DATE"]) # {})]

add_month(df) ==
    with_column(df, "month", [i \in 1..Len(df.rows) |-> to_period(df.rows[i]["FL_DATE"])])

(* variant: a delay that does not parse counts as over 15 *)
norm_delay_late(df, col, ind) ==
    IF col \in df.columns
    THEN LET num == coerce_delay(column(df, col))
         IN with_column(with_column(df, col, num), ind,
                        [i \in 1..Len(num) |-> IF num[i] = {} THEN {1} ELSE {over_15(num[i])}])
    ELSE df

norm_delay(df, col, ind) ==
    IF col \in df.columns
    THEN LET num == coerce_delay(column(df, col))
         IN with_column(with_column(df, col, num), ind,
                        [i \in 1..Len(num) |-> {over_15(num[i])}])
    ELSE df

norm_flag(df, col) ==
    IF col \in df.columns
    THEN LET flags == normalize_flag(column(df, col))
         IN with_column(df, col, [i \in 1..Len(df.rows) |-> {flags[i]}])
    ELSE df

(* pd.to_numeric(errors="coerce").fillna(0.0) of every delay-cause column *)
norm_causes(df) ==
    [columns |-> df.columns,
     rows |-> [i \in 1..Len(df.rows) |->
                  [c \in df.columns |->
                      IF c \in DOMAIN DELAY_CAUSE_COLUMNS
                      THEN IF to_numeric(df.rows[i][c]) = {} THEN {0}
                           ELSE to_numeric(df.rows[i][c])
                      ELSE df.rows[i][c]]]]

(* variant: the flags are normalised before the rows without a date are dropped *)
preprocess_chunk_flags_first(chunk) ==
    norm_causes(
      norm_delay(
        norm_delay(
          add_month(drop_bad_dates(norm_flag(norm_flag(chunk, "CANCELLED"), "DIVERTED"))),
          "ARR_DELAY", "arr_delay_over_15"),
        "DEP_DELAY", "dep_delay_over_15"))

preprocess_chunk(chunk) ==
    norm_causes(
      norm_flag(
        norm_flag(
          norm_delay(
            norm_delay(add_month(drop_bad_dates(chunk)), "ARR_DELAY", "arr_delay_over_15"),
            "DEP_DELAY", "dep_delay_over_15"),
          "CANCELLED"),
        "DIVERTED"))

(* ------------------------------ Aggregator ----------------------------- *)
build_agg_spec(chunk) ==
    LET arr == IF "ARR_DELAY" \in chunk.columns
               THEN {"arr_delay_sum", "arr_delay_count", "arr_delay_over_15"} ELSE {}
        dep == IF "DEP_DELAY" \in chunk.columns
               THEN {"dep_delay_sum", "dep_delay_count", "dep_delay_over_15"} ELSE {}
        can == IF "CANCELLED" \in chunk.columns THEN {"cancelled"} ELSE {}
        div == IF "DIVERTED" \in chunk.columns THEN {"diverted"} ELSE {}
        cau == {DELAY_CAUSE_COLUMNS[c] : c \in DOMAIN DELAY_CAUSE_COLUMNS \cap chunk.columns}
    IN [field \in {"flights"} \cup arr \cup dep \cup can \cup div \cup cau |->
          CASE field = "flights" -> <<"FL_DATE", "size">>
            [] field = "arr_delay_sum" -> <<"ARR_DELAY", "sum">>
            [] field = "arr_delay_count" -> <<"ARR_DELAY", "count">>
            [] field = "arr_delay_over_15" -> <<"arr_delay_over_15", "sum">>
            [] field = "dep_delay_sum" -> <<"DEP_DELAY", "sum">>
            [] field = "dep_delay_count" -> <<"DEP_DELAY", "count">>
            [] field = "dep_delay_over_15" -> <<"dep_delay_over_15", "sum">>
            [] field = "cancelled" -> <<"CANCELLED", "sum">>
            [] field = "diverted" -> <<"DIVERTED", "sum">>
            [] OTHER -> <<CHOOSE c \in DOMAIN DELAY_CAUSE_COLUMNS :
                              DELAY_CAUSE_COLUMNS[c] = field, "sum">>]

(* Series.sum(skipna=True): NaN cells add nothing, an empty series sums to 0 *)
series_sum(series) ==
    SumSeq([i \in 1..Len(series) |->
               IF series[i] = {} THEN 0 ELSE CHOOSE v \in series[i] : TRUE])

(* variant: Series.nunique(), the number of distinct values *)
series_count_nunique(series) == Cardinality(UNION {series[i] : i \in 1..Len(series)})

(* Series.count(): the number of cells that are not NaN *)
series_count(series) == Cardinality({i \in 1..Len(series) : series[i] # {}})

(* one named aggregation (column, aggfunc) over the rows of a group *)
aggregate(rows, how) ==
    CASE how[2] = "size" -> Len(rows)
      [] how[2] = "sum" -> series_sum([i \in 1..Len(rows) |-> rows[i][how[1]]])
      [] how[2] = "count" -> series_count([i \in 1..Len(rows) |-> rows[i][how[1]]])

(* the group key of a row; an empty cell of a key column is NaN *)
group_key(row, by) == [k \in 1..Len(by) |-> row[by[k]]]

(* variant: only the first key column is tested for NaN *)
key_is_null_first(key) == key[1] = ""

key_is_null(key) == \E k \in 1..Len(key) : key[k] = ""

(* chunk.groupby(by, observed=True).agg(agg_spec): rows with a NaN key are left out *)
groupby_agg(chunk, by, agg_spec) ==
    [columns |-> DOMAIN agg_spec,
     data |-> [key \in {group_key(chunk.rows[i], by) : i \in
                          {j \in 1..Len(chunk.rows) : ~key_is_null(group_key(chunk.rows[j], by))}} |->
                 [field \in DOMAIN agg_spec |->
                     aggregate(SelectSeq(chunk.rows, LAMBDA r : group_key(r, by) = key),
                               agg_spec[field])]]]

(* variant: the partial of a batch replaces the stored record of its key *)
update_table_replace(table, grouped) ==
    IF DOMAIN grouped.data = {} THEN table
    ELSE [key \in DOMAIN table \cup DOMAIN grouped.data |->
            IF key \in DOMAIN grouped.data
            THEN [field \in METRIC_FIELDS |->
                    IF field \in grouped.columns THEN grouped.data[key][field] ELSE 0]
            ELSE table[key]]

(* variant: a field that the partial does not have is set back to zero *)
update_table_reset(table, grouped) ==
    IF DOMAIN grouped.data = {} THEN table
    ELSE [key \in DOMAIN table \cup DOMAIN grouped.data |->
            IF key \in DOMAIN grouped.data
            THEN LET stats == IF key \in DOMAIN table THEN table[key] ELSE new_stats
                 IN [field \in METRIC_FIELDS |->
                       IF field \in grouped.columns
                       THEN stats[field] + grouped.data[key][field]
                       ELSE 0]
            ELSE table[key]]

update_table(table, grouped) ==
    IF DOMAIN grouped.data = {} THEN table
    ELSE [key \in DOMAIN table \cup DOMAIN grouped.data |->
            IF key \in DOMAIN grouped.data
            THEN LET stats == IF key \in DOMAIN table THEN table[key] ELSE new_stats
                 IN [field \in METRIC_FIELDS |->
                       IF field \in grouped.columns
                       THEN stats[field] + grouped.data[key][field]
                       ELSE stats[field]]
            ELSE table[key]]

update_metrics_present(present, chunk) ==
    present \cup UNION {COLUMN_TO_METRICS[c] : c \in DOMAIN COLUMN_TO_METRICS \cap chunk.columns}

(* variant: the totals of the batch are assigned, not added *)
update_overall_assign(overall, chunk) ==
    [field \in METRIC_FIELDS |->
        IF field \in DOMAIN build_agg_spec(chunk)
        THEN aggregate(chunk.rows, build_agg_spec(chunk)[field])
        ELSE overall[field]]

update_overall(overall, chunk) ==
    [field \in METRIC_FIELDS |->
        overall[field] +
        CASE field = "flights" -> Len(chunk.rows)
          [] field = "arr_delay_sum" /\ "ARR_DELAY" \in chunk.columns ->
                series_sum(column(chunk, "ARR_DELAY"))
          [] field = "arr_delay_count" /\ "ARR_DELAY" \in chunk.columns ->
                series_count(column(chunk, "ARR_DELAY"))
          [] field = "arr_delay_over_15" /\ "ARR_DELAY" \in chunk.columns
                                         /\ "arr_delay_over_15" \in chunk.columns ->
                series_sum(column(chunk, "arr_delay_over_15"))
          [] field = "dep_delay_sum" /\ "DEP_DELAY" \in chunk.columns ->
                series_sum(column(chunk, "DEP_DELAY"))
          [] field = "dep_delay_count" /\ "DEP_DELAY" \in chunk.columns ->
                series_count(column(chunk, "DEP_DELAY"))
          [] field = "dep_delay_over_15" /\ "DEP_DELAY" \in chunk.columns
                                         /\ "dep_delay_over_15" \in chunk.columns ->
                series_sum(column(chunk, "dep_delay_over_15"))
          [] field = "cancelled" /\ "CANCELLED" \in chunk.columns ->
                series_sum(column(chunk, "CANCELLED"))
          [] field = "diverted" /\ "DIVERTED" \in chunk.columns ->
                series_sum(column(chunk, "DIVERTED"))
          [] \E c \in DOMAIN DELAY_CAUSE_COLUMNS \cap chunk.columns :
                DELAY_CAUSE_COLUMNS[c] = field ->
                series_sum(column(chunk, CHOOSE c \in DOMAIN DELAY_CAUSE_COLUMNS :
                                             DELAY_CAUSE_COLUMNS[c] = field))
          [] OTHER -> 0]

(* ------------------------------- Enricher ------------------------------ *)
(* A finalized table is a record [columns, data]: data maps a key to its   *)
(* record of metric and derived fields.  A derived field is a set with at  *)
(* most one fraction <<numerator, denominator>>: {} is NaN.                *)

(* finalize_table: one record per key, the key columns then the metrics;   *)
(* an empty table gives an empty frame that has the columns                *)
finalize_table(table, key_names) ==
    [columns |-> Range(key_names) \cup METRIC_FIELDS, data |-> table]

(* denominator.replace(0, np.nan) *)
replace_zero(denominator) == IF denominator = 0 THEN {} ELSE {denominator}

(* variant: a zero denominator gives the ratio zero *)
safe_divide_zero(numerator, denominator) ==
    IF denominator = 0 THEN {<<0, 1>>} ELSE {<<numerator, denominator>>}

(* numerator / denominator.replace(0, np.nan): a NaN denominator gives NaN *)
safe_divide(numerator, denominator) ==
    {<<numerator, d>> : d \in replace_zero(denominator)}

(* 1 - ratio *)
one_minus(ratio) == {<<q[2] - q[1], q[2]>> : q \in ratio}

(* variant: the on-time rate is taken over all the flights *)
DERIVED_FIELDS_over_flights ==
    [avg_arr_delay |-> <<"arr_delay_sum", "arr_delay_count">>,
     avg_dep_delay |-> <<"dep_delay_sum", "dep_delay_count">>,
     on_time_rate |-> <<"arr_delay_over_15", "flights">>,
     departure_delay_rate |-> <<"dep_delay_over_15", "dep_delay_count">>,
     cancellation_rate |-> <<"cancelled", "flights">>,
     diversion_rate |-> <<"diverted", "flights">>]

(* the derived fields of enrich_metrics: numerator and denominator column *)
DERIVED_FIELDS ==
    [avg_arr_delay |-> <<"arr_delay_sum", "arr_delay_count">>,
     avg_dep_delay |-> <<"dep_delay_sum", "dep_delay_count">>,
     on_time_rate |-> <<"arr_delay_over_15", "arr_delay_count">>,
     departure_delay_rate |-> <<"dep_delay_over_15", "dep_delay_count">>,
     cancellation_rate |-> <<"cancelled", "flights">>,
     diversion_rate |-> <<"diverted", "flights">>]

(* the value of one derived field of one record *)
derive(record, field) ==
    LET ratio == safe_divide(record[DERIVED_FIELDS[field][1]],
                             record[DERIVED_FIELDS[field][2]])
    IN IF field = "on_time_rate" THEN one_minus(ratio) ELSE ratio

enrich_metrics(df) ==
    IF DOMAIN df.data = {} THEN df
    ELSE LET derived == {field \in DOMAIN DERIVED_FIELDS :
                            Range(DERIVED_FIELDS[field]) \subseteq df.columns}
         IN [columns |-> df.columns \cup derived,
             data |-> [key \in DOMAIN df.data |->
                         [col \in DOMAIN df.data[key] \cup derived |->
                             IF col \in derived THEN derive(df.data[key], col)
                             ELSE df.data[key][col]]]]

(* ------------------------------- Reporter ------------------------------ *)
(* The report as the set of its headings and bullets; a bullet carries the *)
(* fraction it prints.  The layout of the tables is left out.              *)
Line(text, value) == [text |-> text, value |-> value]

(* the "Overall performance" bullets, lines 380-399 *)
overall_bullets(overall, present) ==
    {Line("Flights analyzed", {<<overall["flights"], 1>>})}
    \cup (IF "arr_delay_sum" \in present /\ overall["arr_delay_count"] # 0
          THEN {Line("Average arrival delay",
                     {<<overall["arr_delay_sum"], overall["arr_delay_count"]>>})}
          ELSE {})
    \cup (IF "dep_delay_sum" \in present /\ overall["dep_delay_count"] # 0
          THEN {Line("Average departure delay",
                     {<<overall["dep_delay_sum"], overall["dep_delay_count"]>>})}
          ELSE {})
    \cup (IF "arr_delay_over_15" \in present /\ overall["arr_delay_count"] # 0
          THEN {Line("On-time arrival rate",
                     one_minus({<<overall["arr_delay_over_15"],
                                  overall["arr_delay_count"]>>}))}
          ELSE {})
    \cup (IF "cancelled" \in present /\ overall["flights"] # 0
          THEN {Line("Cancellation rate", {<<overall["cancelled"], overall["flights"]>>})}
          ELSE {})
    \cup (IF "diverted" \in present /\ overall["flights"] # 0
          THEN {Line("Diversion rate", {<<overall["diverted"], overall["flights"]>>})}
          ELSE {})

(* variant: without flights the report has no line that says so *)
build_report_silent(monthly, carrier, origin, route, overall, present) ==
    IF overall["flights"] = 0 THEN {Line("# Flight Delay Dataset Analysis", {})}
    ELSE {Line("# Flight Delay Dataset Analysis", {}), Line("## Overall performance", {})}
         \cup overall_bullets(overall, present)

build_report(monthly, carrier, origin, route, overall, present) ==
    {Line("# Flight Delay Dataset Analysis", {})}
    \cup (IF overall["flights"] = 0
          THEN {Line("No flights were processed", {})}
          ELSE {Line("## Overall performance", {})} \cup overall_bullets(overall, present))
    \cup (IF DOMAIN monthly.data # {} THEN {Line("## Monthly trend overview", {})} ELSE {})
    \cup (IF DOMAIN carrier.data # {} /\ "avg_arr_delay" \in carrier.columns
          THEN {Line("## Carrier ranking", {})} ELSE {})
    \cup (IF DOMAIN origin.data # {} /\ "avg_arr_delay" \in origin.columns
          THEN {Line("## Origin airport performance", {})} ELSE {})
    \cup (IF DOMAIN route.data # {} /\ "avg_arr_delay" \in route.columns
          THEN {Line("## Busiest routes", {})} ELSE {})
    \cup (IF \E c \in DOMAIN DELAY_CAUSE_COLUMNS : overall[DELAY_CAUSE_COLUMNS[c]] # 0
          THEN {Line("## Delay minutes by cause", {})} ELSE {})

(* ------------------------------ inputs --------------------------------- *)
(* one line of a CSV file, by canonical field *)
MkRow(date, carrier, origin, dest, arr, dep, can, div, cause) ==
    [FL_DATE |-> date, OP_CARRIER |-> carrier, OP_UNIQUE_CARRIER |-> carrier,
     ORIGIN |-> origin, DEST |-> dest, ARR_DELAY |-> arr, DEP_DELAY |-> dep,
     CANCELLED |-> can, DIVERTED |-> div, CARRIER_DELAY |-> cause,
     WEATHER_DELAY |-> "", NAS_DELAY |-> cause, SECURITY_DELAY |-> "",
     LATE_AIRCRAFT_DELAY |-> ""]

RowPool ==
    {MkRow("2024-01-05", "AA", "JFK", "LAX", "20", "5", "N", "0", "7"),
     MkRow("2024-01-20", "AA", "JFK", "LAX", "", "n/a", "Y", "1", ""),
     MkRow("2024-02-01", "DL", "ATL", "LAX", "10", "-3", "N", "N", ""),
     MkRow("not-a-date", "AA", "JFK", "LAX", "20", "20", "1", "1", "7"),
     MkRow("2024-01-05", "", "JFK", "", "15", "15.01", "1", "yes", "n/a")}

(* the three-row batch of the boundary scenario *)
ScenarioBatch ==
    <<MkRow("2024-01-05", "AA", "JFK", "LAX", "20", "5", "N", "0", "7"),
      MkRow("2024-01-20", "AA", "JFK", "LAX", "", "n/a", "Y", "1", ""),
      MkRow("2024-02-01", "DL", "ATL", "LAX", "10", "-3", "N", "N", "")>>

ScenarioRows == {ScenarioBatch[i] : i \in 1..Len(ScenarioBatch)}

(* the headers of the file of the scenario, in the two naming styles *)
ScenarioHeaders ==
    {{"FL_DATE", "OP_CARRIER", "ORIGIN", "DEST", "ARR_DELAY", "DEP_DELAY",
      "CANCELLED"},
     {"FlightDate", "Operating_Airline", "Origin", "Dest", "ArrDelay", "DepDelay",
      "Cancelled"}}

(* the headers of the files of the data directory *)
HeaderPool ==
    {{"FL_DATE", "OP_CARRIER", "ORIGIN", "DEST", "ARR_DELAY", "DEP_DELAY",
      "CANCELLED", "DIVERTED", "CARRIER_DELAY", "NAS_DELAY"},
     {"Year", "FlightDate", "Origin", "ArrDelay", "ArrDelayMinutes", "Cancelled"},
     {"OP_CARRIER", "ORIGIN", "DEST", "ARR_DELAY"}}

(* the column names the resolver is tried on *)
ResolverNames ==
    {"FL_DATE", "FlightDate", "OP_CARRIER", "Operating_Airline", "Operating_Airline ",
     "ORIGIN", "Origin", "ARR_DELAY", "ArrDelay", "ArrDelayMinutes", "Year"}

(* the cells normalize_flag is tried on *)
FlagPool == {"Y", "yes", "True", "t", "1", "0", "N", "maybe", ""}

canonical_of(alias) ==
    CHOOSE c \in DOMAIN COLUMN_ALIASES : alias \in Range(COLUMN_ALIASES[c])

(* the header of the same file with every column in its canonical spelling *)
canonical_header(header) ==
    {canonical_of(a) : a \in {h \in header : \E c \in DOMAIN COLUMN_ALIASES :
                                               h \in Range(COLUMN_ALIASES[c])}}

(* a record of metrics as the merges can leave it; the record of zeros is  *)
(* what the defaultdict gives for a key that was only looked up            *)
InputRecord(flights, arr_count, arr_over, dep_count, cancelled) ==
    [field \in METRIC_FIELDS |->
        CASE field = "flights" -> flights
          [] field = "arr_delay_count" -> arr_count
          [] field = "arr_delay_over_15" -> arr_over
          [] field = "arr_delay_sum" -> 2000 * arr_over + 500 * (arr_count - arr_over)
          [] field = "dep_delay_count" -> dep_count
          [] field = "dep_delay_over_15" -> dep_count
          [] field = "dep_delay_sum" -> 1501 * dep_count
          [] field = "cancelled" -> cancelled
          [] field = "diverted" -> flights - cancelled
          [] OTHER -> 0]

InputRecords ==
    {InputRecord(flights, arr_count, arr_over, dep_count, cancelled) :
        flights \in 0..MaxCount, arr_count \in 0..MaxCount, arr_over \in 0..MaxCount,
        dep_count \in 0..MaxCount, cancelled \in 0..MaxCount}

(* the tables enrich_metrics is tried on: no key, one key, two keys *)
InputTables ==
    {<<>>}
    \cup {(<<"AA">> :> r) : r \in {q \in InputRecords : q["arr_delay_over_15"] <= q["arr_delay_count"]
                                        /\ q["arr_delay_count"] <= q["flights"]
                                        /\ q["dep_delay_count"] <= q["flights"]
                                        /\ q["cancelled"] <= q["flights"]}}
    \cup {(<<"AA">> :> InputRecord(2, 1, 1, 2, 1)) @@ (<<"DL">> :> r) :
             r \in {InputRecord(0, 0, 0, 0, 0), InputRecord(1, 1, 0, 0, 0)}}

(* pd.read_csv(path, usecols=usecols, chunksize=...): one chunk of lines *)
read_chunk(lines, cols) ==
    [columns |-> cols,
     rows |-> [i \in 1..Len(lines) |-> [a \in cols |-> lines[i][canonical_of(a)]]]]

(* the lines as pd.read_csv and the rename give them for that file *)
read_canonical(lines, header) ==
    LET cmap == resolve_column_map(canonical_header(header))
    IN rename(read_chunk(lines, resolve_usecols(cmap)), cmap)

(* one line of a CSV file of the data, with the columns that only           *)
(* build_visualizations reads                                               *)
VisualRow(line, arr_del15, dep_del15, flights) ==
    [ArrDel15 |-> arr_del15, DepDel15 |-> dep_del15, Flights |-> flights] @@ line

(* the lines build_visualizations and the report generator are tried on:   *)
(* ArrDel15 and DepDel15 agree with the delays, and are empty without one  *)
VisualRows ==
    {VisualRow(MkRow("2024-01-05", "AA", "JFK", "LAX", "20", "5", "0", "0", "7"), "1", "0", "1"),
     VisualRow(MkRow("2024-01-20", "AA", "JFK", "LAX", "", "", "1", "0", ""), "", "", "1"),
     VisualRow(MkRow("2024-02-01", "DL", "ATL", "LAX", "10", "-3", "0", "0", ""), "0", "0", "1"),
     VisualRow(MkRow("2024-01-05", "DL", "JFK", "LAX", "20", "20", "0", "0", "7"), "1", "1", "1"),
     VisualRow(MkRow("2024-02-01", "AA", "ATL", "LAX", "", "20", "0", "1", ""), "", "1", "1"),
     VisualRow(MkRow("2024-01-20", "", "JFK", "", "10", "5", "0", "0", ""), "0", "0", "")}

(* ------------------------- build_visualizations ------------------------ *)
USECOLS ==
    {"FlightDate", "IATA_Code_Marketing_Airline", "Origin", "Dest", "ArrDelay",
     "ArrDel15", "DepDelay", "DepDel15", "Cancelled", "Diverted", "Flights",
     "CarrierDelay", "WeatherDelay", "NASDelay", "SecurityDelay", "LateAircraftDelay"}

RENAME_MAP ==
    [IATA_Code_Marketing_Airline |-> "carrier", Origin |-> "origin", Dest |-> "dest",
     ArrDelay |-> "arr_delay", ArrDel15 |-> "arr_delay_over_15",
     DepDelay |-> "dep_delay", DepDel15 |-> "dep_delay_over_15",
     Cancelled |-> "cancelled", Diverted |-> "diverted", Flights |-> "flights",
     CarrierDelay |-> "carrier_delay", WeatherDelay |-> "weather_delay",
     NASDelay |-> "nas_delay", SecurityDelay |-> "security_delay",
     LateAircraftDelay |-> "late_aircraft_delay"]

(* the columns of the data that are not columns of the report generator *)
IndicatorColumns == {"ArrDel15", "DepDel15", "Flights"}

(* the cell of a line of a CSV file under a column of USECOLS *)
cell_of(line, col) ==
    IF col \in IndicatorColumns THEN line[col] ELSE line[canonical_of(col)]

(* load_dataset: read_csv(usecols=USECOLS) of every file, concat, rename *)
load_dataset(lines) ==
    [columns |-> {IF c \in DOMAIN RENAME_MAP THEN RENAME_MAP[c] ELSE c : c \in USECOLS},
     rows |-> [i \in 1..Len(lines) |->
                  [c \in {IF u \in DOMAIN RENAME_MAP THEN RENAME_MAP[u] ELSE u : u \in USECOLS} |->
                      cell_of(lines[i], CHOOSE u \in USECOLS :
                                  c = IF u \in DOMAIN RENAME_MAP THEN RENAME_MAP[u] ELSE u)]]]

(* .dt.to_timestamp() of a month: its first day *)
TimestampText == ("2024-01" :> "2024-01-01") @@ ("2024-02" :> "2024-02-01")

(* main, line 281: raw["month"] = FlightDate.dt.to_period("M").dt.to_timestamp() *)
add_month_start(raw) ==
    with_column(raw, "month",
                [i \in 1..Len(raw.rows) |-> TimestampText[to_period(raw.rows[i]["FlightDate"])]])

numeric_columns ==
    {"arr_delay", "dep_delay", "carrier_delay", "weather_delay", "nas_delay",
     "security_delay", "late_aircraft_delay"}

indicator_columns ==
    {"arr_delay_over_15", "dep_delay_over_15", "cancelled", "diverted", "flights"}

(* .fillna(0) of one cell *)
fillna_zero(cell) == IF cell = {} THEN {0} ELSE cell

(* coerce_numeric: one cell of the result; 1 is 100 hundredths *)
coerce_cell(col, cell) ==
    IF col \in numeric_columns THEN to_numeric(cell)
    ELSE IF col = "flights"
         THEN (IF fillna_zero(to_numeric(cell)) = {0} THEN {NumberText["1"]}
               ELSE fillna_zero(to_numeric(cell)))
    ELSE IF col \in indicator_columns THEN fillna_zero(to_numeric(cell))
    ELSE cell

coerce_numeric(frame) ==
    [columns |-> frame.columns,
     rows |-> [i \in 1..Len(frame.rows) |->
                  [c \in DOMAIN frame.rows[i] |-> coerce_cell(c, frame.rows[i][c])]]]

(* Series.mean(): the sum over the count of the cells that are not NaN *)
series_mean(series) ==
    IF series_count(series) = 0 THEN {} ELSE {<<series_sum(series), series_count(series)>>}

(* Series / Series of one row: 0/0 is NaN, x/0 is an infinity *)
divide(numerator, denominator) ==
    IF denominator = 0 /\ numerator = 0 THEN {} ELSE {<<numerator, denominator>>}

(* the rows of a group *)
group_rows(frame, by, key) == SelectSeq(frame.rows, LAMBDA r : group_key(r, by) = key)

(* groupby(by): the keys of the groups, rows with a NaN key left out *)
group_keys(frame, by) ==
    {group_key(frame.rows[i], by) : i \in
        {j \in 1..Len(frame.rows) : ~key_is_null(group_key(frame.rows[j], by))}}

summarise_dimension(frame, group_cols) ==
    [key \in group_keys(frame, group_cols) |->
        LET rows == group_rows(frame, group_cols, key)
            flights == series_sum([i \in 1..Len(rows) |-> rows[i]["flights"]])
            delayed_arrivals == series_sum([i \in 1..Len(rows) |-> rows[i]["arr_delay_over_15"]])
            cancelled == series_sum([i \in 1..Len(rows) |-> rows[i]["cancelled"]])
        IN [flights |-> flights,
            avg_arr_delay |-> series_mean([i \in 1..Len(rows) |-> rows[i]["arr_delay"]]),
            delayed_arrivals |-> delayed_arrivals,
            cancelled |-> cancelled,
            on_time_rate |-> one_minus(divide(delayed_arrivals, flights)),
            cancellation_rate |-> divide(cancelled, flights)]]

summarise_monthly(frame) ==
    [key \in group_keys(frame, <<"month">>) |->
        LET rows == group_rows(frame, <<"month">>, key)
            flights == series_sum([i \in 1..Len(rows) |-> rows[i]["flights"]])
            delayed_arrivals == series_sum([i \in 1..Len(rows) |-> rows[i]["arr_delay_over_15"]])
            cancelled == series_sum([i \in 1..Len(rows) |-> rows[i]["cancelled"]])
        IN [flights |-> flights,
            avg_arr_delay |-> series_mean([i \in 1..Len(rows) |-> rows[i]["arr_delay"]]),
            avg_dep_delay |-> series_mean([i \in 1..Len(rows) |-> rows[i]["dep_delay"]]),
            delayed_arrivals |-> delayed_arrivals,
            delayed_departures |->
                series_sum([i \in 1..Len(rows) |-> rows[i]["dep_delay_over_15"]]),
            cancelled |-> cancelled,
            on_time_rate |-> one_minus(divide(delayed_arrivals, flights)),
            cancellation_rate |-> divide(cancelled, flights)]]

(* the order of the dates *)
DateOrder == ("2024-01-05" :> 1) @@ ("2024-01-20" :> 2) @@ ("2024-02-01" :> 3)

(* Series.min() and Series.max() of a column of dates *)
series_min(series) ==
    CHOOSE d \in Range(series) : \A e \in Range(series) : DateOrder[d] <= DateOrder[e]

series_max(series) ==
    CHOOSE d \in Range(series) : \A e \in Range(series) : DateOrder[d] >= DateOrder[e]

compute_summary(frame) ==
    LET total_flights == series_sum(column(frame, "flights"))
    IN [date_range |-> <<series_min(column(frame, "FlightDate")),
                         series_max(column(frame, "FlightDate"))>>,
        total_flights |-> astype_int64(total_flights),
        avg_arr_delay |-> series_mean(column(frame, "arr_delay")),
        avg_dep_delay |-> series_mean(column(frame, "dep_delay")),
        on_time_rate |->
            one_minus(divide(series_sum(column(frame, "arr_delay_over_15")), total_flights)),
        cancellation_rate |-> divide(series_sum(column(frame, "cancelled")), total_flights),
        diversion_rate |-> divide(series_sum(column(frame, "diverted")), total_flights)]

(* ------------------------------- state --------------------------------- *)
VARIABLES
    pc,               \* position in process_dataset / main
    error,            \* why the run ended without a report
    data_dir,         \* the headers that a file of the data directory can have
    csv_files,        \* the files to process, in order
    chunksize,        \* args.chunksize
    path,             \* index in csv_files of the file of the current iteration
    column_map,       \* canonical field -> source column of the current file
    usecols,          \* source columns read from the current file
    exhausted,        \* the reader of the current file has returned a short chunk
    monthly_stats, carrier_stats, origin_stats, route_stats,
    overall_stats,
    metrics_present,
    monthly_df, carrier_df, origin_df, route_df,   \* the enriched tables
    enrichments,      \* history: how many times the tables were enriched
    report,           \* the lines build_report has put in the report
    report_written,   \* build_report has written the output file
    headers,          \* history: the header of every file opened so far
    rows_read,        \* history: the number of lines read so far
    rowwise,          \* history: what the rows read so far add, row by row
    clean,            \* history: the accumulators of the same batches without
                      \*          their rows whose date does not parse
    canon,            \* history: the accumulators of the same batches read from
                      \*          files whose headers are in the canonical spelling
    file_rows,        \* history: the bag of the lines read from the current file
    file_base,        \* history: the accumulators when the current file was opened
    series,           \* argument of normalize_flag (flag specification)
    normalized,       \* result of normalize_flag (flag specification)
    df,               \* argument of enrich_metrics (enricher specification)
    result,           \* result of enrich_metrics (enricher specification)
    loaded,           \* the lines of the CSV files build_visualizations has loaded
    numeric,          \* build_visualizations: the frame after coerce_numeric
    summaries,        \* build_visualizations: the four summary tables
    summary           \* build_visualizations: the global summary object

run_vars ==
    <<monthly_stats, carrier_stats, origin_stats, route_stats, overall_stats,
      metrics_present>>

file_vars == <<column_map, usecols, exhausted>>

history_vars == <<rows_read, rowwise, clean, canon, file_rows, file_base>>

flag_vars == <<series, normalized>>

frame_vars == <<monthly_df, carrier_df, origin_df, route_df, enrichments, report>>

enrich_vars == <<df, result>>

visual_vars == <<loaded, numeric, summaries, summary>>

(* no summary yet *)
NoSummary ==
    [date_range |-> <<>>, total_flights |-> 0, avg_arr_delay |-> {}, avg_dep_delay |-> {},
     on_time_rate |-> {}, cancellation_rate |-> {}, diversion_rate |-> {}]

(* no frame yet *)
NoFrame == [columns |-> {}, data |-> <<>>]

vars ==
    <<pc, error, data_dir, csv_files, chunksize, path, file_vars, run_vars,
      report_written, headers, history_vars, flag_vars, frame_vars, enrich_vars,
      visual_vars>>

(* the running state of the loop as one record *)
accumulators ==
    [monthly |-> monthly_stats, carrier |-> carrier_stats, origin |-> origin_stats,
     route |-> route_stats, overall |-> overall_stats, present |-> metrics_present]

(* the state at lines 496-501 *)
EmptyAccumulators ==
    [monthly |-> <<>>, carrier |-> <<>>, origin |-> <<>>, route |-> <<>>,
     overall |-> new_stats, present |-> {}]

(* the body of "for chunk in reader" after preprocess_chunk *)
process_chunk(acc, chunk) ==
    IF chunk.rows = <<>> THEN acc
    ELSE LET agg_spec == build_agg_spec(chunk)
         IN [present |-> update_metrics_present(acc.present, chunk),
             overall |-> update_overall(acc.overall, chunk),
             monthly |-> update_table(acc.monthly, groupby_agg(chunk, <<"month">>, agg_spec)),
             carrier |-> IF "OP_CARRIER" \in chunk.columns
                         THEN update_table(acc.carrier,
                                           groupby_agg(chunk, <<"OP_CARRIER">>, agg_spec))
                         ELSE acc.carrier,
             origin |-> IF "ORIGIN" \in chunk.columns
                        THEN update_table(acc.origin,
                                          groupby_agg(chunk, <<"ORIGIN">>, agg_spec))
                        ELSE acc.origin,
             route |-> IF {"ORIGIN", "DEST"} \subseteq chunk.columns
                       THEN update_table(acc.route,
                                         groupby_agg(chunk, <<"ORIGIN", "DEST">>, agg_spec))
                       ELSE acc.route]

(* --------------------- what one row adds (history) --------------------- *)
RowwiseFields ==
    {"flights", "arr_delay_sum", "arr_delay_count", "arr_delay_over_15",
     "dep_delay_sum", "dep_delay_count", "dep_delay_over_15"}

RowwiseZero == [field \in RowwiseFields |-> 0]

EmptyRowwise ==
    [monthly |-> <<>>, carrier |-> <<>>, origin |-> <<>>, route |-> <<>>,
     overall |-> RowwiseZero]

Filled(cmap, line, canonical) == canonical \in DOMAIN cmap /\ line[cmap[canonical]] # ""

IsNumber(cmap, line, canonical) ==
    canonical \in DOMAIN cmap /\ line[cmap[canonical]] \in DOMAIN NumberText

Number(cmap, line, canonical) == NumberText[line[cmap[canonical]]]

DateParses(cmap, line) == line[cmap["FL_DATE"]] \in DOMAIN PeriodText

(* a row adds 1 to flights; its delay adds to sum, count and over-15 only  *)
(* when it is a number, and to over-15 only when it is above 15.00         *)
RowAdds(cmap, line) ==
    LET delay(canonical, what) ==
            IF ~IsNumber(cmap, line, canonical) THEN 0
            ELSE CASE what = "sum" -> Number(cmap, line, canonical)
                   [] what = "count" -> 1
                   [] what = "over" ->
                        IF Number(cmap, line, canonical) > 15 * 100 THEN 1 ELSE 0
    IN [field \in RowwiseFields |->
          CASE field = "flights" -> 1
            [] field = "arr_delay_sum" -> delay("ARR_DELAY", "sum")
            [] field = "arr_delay_count" -> delay("ARR_DELAY", "count")
            [] field = "arr_delay_over_15" -> delay("ARR_DELAY", "over")
            [] field = "dep_delay_sum" -> delay("DEP_DELAY", "sum")
            [] field = "dep_delay_count" -> delay("DEP_DELAY", "count")
            [] field = "dep_delay_over_15" -> delay("DEP_DELAY", "over")]

AddAt(table, key, adds) ==
    [k \in DOMAIN table \cup {key} |->
        [field \in RowwiseFields |->
            (IF k \in DOMAIN table THEN table[k][field] ELSE 0)
            + (IF k = key THEN adds[field] ELSE 0)]]

(* a row without a date adds nothing; a row is in a dimension only when    *)
(* the columns of the dimension are resolved and filled                    *)
RowwiseLine(ref, cmap, line) ==
    IF ~DateParses(cmap, line) THEN ref
    ELSE LET adds == RowAdds(cmap, line)
         IN [overall |-> [field \in RowwiseFields |-> ref.overall[field] + adds[field]],
             monthly |-> AddAt(ref.monthly, <<PeriodText[line[cmap["FL_DATE"]]]>>, adds),
             carrier |-> IF Filled(cmap, line, "OP_CARRIER")
                         THEN AddAt(ref.carrier, <<line[cmap["OP_CARRIER"]]>>, adds)
                         ELSE ref.carrier,
             origin |-> IF Filled(cmap, line, "ORIGIN")
                        THEN AddAt(ref.origin, <<line[cmap["ORIGIN"]]>>, adds)
                        ELSE ref.origin,
             route |-> IF Filled(cmap, line, "ORIGIN") /\ Filled(cmap, line, "DEST")
                       THEN AddAt(ref.route,
                                  <<line[cmap["ORIGIN"]], line[cmap["DEST"]]>>, adds)
                       ELSE ref.route]

RECURSIVE RowwiseChunk(_, _, _)
RowwiseChunk(ref, cmap, lines) ==
    IF lines = <<>> THEN ref
    ELSE RowwiseChunk(RowwiseLine(ref, cmap, Head(lines)), cmap, Tail(lines))

(* a chunk as read, without its rows whose date does not parse *)
WithoutBadDates(raw, cmap) ==
    [columns |-> raw.columns,
     rows |-> SelectSeq(raw.rows, LAMBDA line : DateParses(cmap, line))]

RECURSIVE SeqToBag(_)
SeqToBag(lines) ==
    IF lines = <<>> THEN EmptyBag ELSE SetToBag({Head(lines)}) (+) SeqToBag(Tail(lines))

RECURSIVE BagToSeq(_)
BagToSeq(bag) ==
    IF BagToSet(bag) = {} THEN <<>>
    ELSE LET line == CHOOSE l \in BagToSet(bag) : TRUE
         IN <<line>> \o BagToSeq(bag (-) SetToBag({line}))

(* ------------------------------ actions -------------------------------- *)
Initially(position, directories, files, arguments, frames) ==
    /\ pc = position
    /\ error = ""
    /\ data_dir \in directories
    /\ csv_files = files
    /\ chunksize = 1
    /\ path = 1
    /\ column_map = <<>>
    /\ usecols = {}
    /\ exhausted = FALSE
    /\ monthly_stats = <<>>
    /\ carrier_stats = <<>>
    /\ origin_stats = <<>>
    /\ route_stats = <<>>
    /\ overall_stats = new_stats
    /\ metrics_present = {}
    /\ report_written = FALSE
    /\ headers = <<>>
    /\ rows_read = 0
    /\ rowwise = EmptyRowwise
    /\ clean = EmptyAccumulators
    /\ canon = EmptyAccumulators
    /\ file_rows = EmptyBag
    /\ file_base = EmptyAccumulators
    /\ series \in arguments
    /\ normalized = <<>>
    /\ monthly_df = NoFrame
    /\ carrier_df = NoFrame
    /\ origin_df = NoFrame
    /\ route_df = NoFrame
    /\ enrichments = 0
    /\ report = {}
    /\ df \in frames
    /\ result = NoFrame
    /\ loaded = <<>>
    /\ numeric = [columns |-> {}, rows |-> <<>>]
    /\ summaries = [monthly |-> <<>>, carrier |-> <<>>, origin |-> <<>>, route |-> <<>>]
    /\ summary = NoSummary

Init == Initially("start", {HeaderPool}, <<>>, {<<>>}, {NoFrame})

(* process_dataset up to the loop over the files: lines 482-501 *)
StartWith(max_files, max_chunksize) ==
    /\ pc = "start"
    /\ \E dir_exists \in BOOLEAN, count \in 0..max_files,
          limited \in BOOLEAN, limit_files \in 0..max_files, size \in 1..max_chunksize :
          LET found == [i \in 1..count |-> i]
              files == IF limited
                       THEN SubSeq(found, 1, IF limit_files < count THEN limit_files ELSE count)
                       ELSE found
          IN IF ~dir_exists
             THEN /\ pc' = "failed"
                  /\ error' = "no_data_dir"
                  /\ UNCHANGED <<csv_files, chunksize>>
             ELSE IF files = <<>>
             THEN /\ pc' = "failed"
                  /\ error' = "no_csv_files"
                  /\ UNCHANGED <<csv_files, chunksize>>
             ELSE /\ pc' = "open"
                  /\ csv_files' = files
                  /\ chunksize' = size
                  /\ UNCHANGED error
    /\ UNCHANGED <<data_dir, path, file_vars, run_vars, report_written, headers,
                   history_vars, flag_vars, frame_vars,
                   enrich_vars, visual_vars>>

Start == StartWith(MaxFiles, MaxChunkSize)

(* variant: a file without a date column is skipped and the run goes on *)
OpenFile_skip ==
    /\ pc = "open"
    /\ path <= Len(csv_files)
    /\ \E header \in data_dir :
         LET cmap == resolve_column_map(header)
         IN /\ headers' = Append(headers, header)
            /\ IF fl_date_missing(cmap)
               THEN /\ pc' = "open"
                    /\ path' = path + 1
                    /\ UNCHANGED <<error, file_vars, file_rows, file_base>>
               ELSE /\ pc' = "read"
                    /\ column_map' = cmap
                    /\ usecols' = resolve_usecols(cmap)
                    /\ exhausted' = FALSE
                    /\ file_rows' = EmptyBag
                    /\ file_base' = accumulators
                    /\ UNCHANGED <<error, path>>
    /\ UNCHANGED <<data_dir, csv_files, chunksize, run_vars, report_written,
                   rows_read, rowwise, clean, canon, flag_vars, frame_vars,
                   enrich_vars, visual_vars>>

(* top of "for path in csv_files": determine_available_columns(path), the  *)
(* ValueError of line 168 ending the run through main's except clause      *)
OpenFile ==
    /\ pc = "open"
    /\ path <= Len(csv_files)
    /\ \E header \in data_dir :
         LET cmap == resolve_column_map(header)
         IN /\ headers' = Append(headers, header)
            /\ IF fl_date_missing(cmap)
               THEN /\ pc' = "failed"
                    /\ error' = "fl_date_not_found"
                    /\ UNCHANGED <<file_vars, file_rows, file_base>>
               ELSE /\ pc' = "read"
                    /\ column_map' = cmap
                    /\ usecols' = resolve_usecols(cmap)
                    /\ exhausted' = FALSE
                    /\ file_rows' = EmptyBag
                    /\ file_base' = accumulators
                    /\ UNCHANGED error
    /\ UNCHANGED <<data_dir, csv_files, chunksize, path, run_vars, report_written,
                   rows_read, rowwise, clean, canon, flag_vars, frame_vars,
                   enrich_vars, visual_vars>>

(* one iteration of "for chunk in reader": a chunk has chunksize lines,    *)
(* except the last one of a file, which can have fewer                     *)
ReadFrom(pool, max_rows) ==
    /\ pc = "read"
    /\ ~exhausted
    /\ \E lines \in SeqsUpTo(pool, chunksize) :
         /\ lines # <<>>
         /\ rows_read + Len(lines) <= max_rows
         /\ \E raw \in {read_chunk(lines, usecols)} :
            \E new \in {process_chunk(accumulators, preprocess_chunk(rename(raw, column_map)))} :
              /\ monthly_stats' = new.monthly
              /\ carrier_stats' = new.carrier
              /\ origin_stats' = new.origin
              /\ route_stats' = new.route
              /\ overall_stats' = new.overall
              /\ metrics_present' = new.present
              /\ exhausted' = (Len(lines) < chunksize)
              /\ rows_read' = rows_read + Len(lines)
              /\ rowwise' = RowwiseChunk(rowwise, column_map, raw.rows)
              /\ clean' = process_chunk(clean,
                             preprocess_chunk(rename(WithoutBadDates(raw, column_map),
                                                     column_map)))
              /\ canon' = process_chunk(canon,
                             preprocess_chunk(read_canonical(lines,
                                                             headers[Len(headers)])))
              /\ file_rows' = file_rows (+) SeqToBag(raw.rows)
    /\ UNCHANGED <<pc, error, data_dir, csv_files, chunksize, path, column_map, usecols,
                   report_written, headers, file_base, flag_vars, frame_vars,
                   enrich_vars, visual_vars>>

ReadChunk == ReadFrom(RowPool, MaxRows)

(* the reader of the current file has no further chunk *)
EndOfFile ==
    /\ pc = "read"
    /\ pc' = "open"
    /\ path' = path + 1
    /\ UNCHANGED <<error, data_dir, csv_files, chunksize, file_vars, run_vars,
                   report_written, headers, history_vars, flag_vars, frame_vars,
                   enrich_vars, visual_vars>>

(* variant: the tables are enriched at the end of every file *)
Enrich_every_file ==
    /\ pc = "open"
    /\ path > 1
    /\ enrichments < MaxFiles
    /\ pc' = IF path > Len(csv_files) THEN "enriched" ELSE "open"
    /\ monthly_df' = enrich_metrics(finalize_table(monthly_stats, <<"month">>))
    /\ carrier_df' = enrich_metrics(finalize_table(carrier_stats, <<"OP_CARRIER">>))
    /\ origin_df' = enrich_metrics(finalize_table(origin_stats, <<"ORIGIN">>))
    /\ route_df' = enrich_metrics(finalize_table(route_stats, <<"ORIGIN", "DEST">>))
    /\ enrichments' = enrichments + 1
    /\ UNCHANGED <<error, data_dir, csv_files, chunksize, path, file_vars, run_vars,
                   report, report_written, headers, history_vars, flag_vars,
                   enrich_vars, visual_vars>>

(* after the loop, lines 535-541: every table is finalized and enriched *)
Enrich ==
    /\ pc = "open"
    /\ path > Len(csv_files)
    /\ pc' = "enriched"
    /\ monthly_df' = enrich_metrics(finalize_table(monthly_stats, <<"month">>))
    /\ carrier_df' = enrich_metrics(finalize_table(carrier_stats, <<"OP_CARRIER">>))
    /\ origin_df' = enrich_metrics(finalize_table(origin_stats, <<"ORIGIN">>))
    /\ route_df' = enrich_metrics(finalize_table(route_stats, <<"ORIGIN", "DEST">>))
    /\ enrichments' = enrichments + 1
    /\ UNCHANGED <<error, data_dir, csv_files, chunksize, path, file_vars, run_vars,
                   report, report_written, headers, history_vars, flag_vars,
                   enrich_vars, visual_vars>>

(* line 543: build_report writes the output file *)
Finish ==
    /\ pc = "enriched"
    /\ pc' = "done"
    /\ report' = build_report(monthly_df, carrier_df, origin_df, route_df,
                              overall_stats, metrics_present)
    /\ report_written' = TRUE
    /\ UNCHANGED <<error, data_dir, csv_files, chunksize, path, file_vars, run_vars,
                   monthly_df, carrier_df, origin_df, route_df, enrichments,
                   headers, history_vars, flag_vars, enrich_vars, visual_vars>>

Next == Start \/ OpenFile \/ ReadChunk \/ EndOfFile \/ Enrich \/ Finish

Spec == Init /\ [][Next]_vars

(* ---------------- the Column Resolver on arbitrary headers ------------- *)
InitResolver == Initially("open", {SUBSET ResolverNames}, <<1>>, {<<>>}, {NoFrame})

NextResolver == OpenFile

SpecResolver == InitResolver /\ [][NextResolver]_vars

(* ---------------- normalize_flag on arbitrary batches ------------------ *)
InitFlag == Initially("flag", {HeaderPool}, <<>>, SeqsUpTo(FlagPool, MaxSeries), {NoFrame})

NormalizeFlag ==
    /\ pc = "flag"
    /\ pc' = "flagged"
    /\ normalized' = normalize_flag(series)
    /\ UNCHANGED <<error, data_dir, csv_files, chunksize, path, file_vars, run_vars,
                   report_written, headers, history_vars, series, frame_vars,
                   enrich_vars, visual_vars>>

NextFlag == NormalizeFlag

SpecFlag == InitFlag /\ [][NextFlag]_vars

(* ---------------- enrich_metrics on arbitrary tables ------------------- *)
InitEnrich ==
    Initially("enrich", {HeaderPool}, <<>>, {<<>>},
              {finalize_table(table, <<"OP_CARRIER">>) : table \in InputTables})

(* variant: the frame passed in is enriched itself, without result = df.copy() *)
EnrichMetrics_in_place ==
    /\ pc = "enrich"
    /\ pc' = "enriched"
    /\ result' = enrich_metrics(df)
    /\ df' = enrich_metrics(df)
    /\ UNCHANGED <<error, data_dir, csv_files, chunksize, path, file_vars, run_vars,
                   report_written, headers, history_vars, flag_vars, frame_vars,
                   visual_vars>>

(* result = enrich_metrics(df) *)
EnrichMetrics ==
    /\ pc = "enrich"
    /\ pc' = "enriched"
    /\ result' = enrich_metrics(df)
    /\ UNCHANGED <<error, data_dir, csv_files, chunksize, path, file_vars, run_vars,
                   report_written, headers, history_vars, flag_vars, frame_vars,
                   df, visual_vars>>

(* result = enrich_metrics(result) *)
EnrichAgain ==
    /\ pc = "enriched"
    /\ pc' = "enriched_twice"
    /\ result' = enrich_metrics(result)
    /\ UNCHANGED <<error, data_dir, csv_files, chunksize, path, file_vars, run_vars,
                   report_written, headers, history_vars, flag_vars, frame_vars,
                   df, visual_vars>>

NextEnrich == EnrichMetrics \/ EnrichAgain

SpecEnrich == InitEnrich /\ [][NextEnrich]_vars

(* ------------------ update_table on the origin table ------------------- *)
InitMerge == Initially("merge", {HeaderPool}, <<>>, {<<>>}, {NoFrame})

(* origin_grouped = chunk.groupby("ORIGIN").agg(agg_spec) of a batch of a   *)
(* file with that header; update_table(origin_stats, origin_grouped)       *)
MergeInto(position, next) ==
    /\ pc = position
    /\ pc' = next
    /\ \E header \in {h \in data_dir : ~fl_date_missing(resolve_column_map(h))
                                        /\ "ORIGIN" \in DOMAIN resolve_column_map(h)},
          lines \in SeqsUpTo(RowPool, MaxChunkSize) :
          \E chunk \in {preprocess_chunk(read_canonical(lines, header))} :
          \E grouped \in {groupby_agg(chunk, <<"ORIGIN">>, build_agg_spec(chunk))} :
             /\ headers' = <<header>>
             /\ df' = grouped
             /\ origin_stats' = update_table(origin_stats, grouped)
    /\ UNCHANGED <<error, data_dir, csv_files, chunksize, path, file_vars,
                   monthly_stats, carrier_stats, route_stats, overall_stats,
                   metrics_present, report_written, history_vars, flag_vars,
                   frame_vars, result, visual_vars>>

UpdateTable == MergeInto("merge", "merged")

UpdateAgain == MergeInto("merged", "merged_twice")

NextMerge == UpdateTable \/ UpdateAgain

SpecMerge == InitMerge /\ [][NextMerge]_vars

(* ---------------- one file of the rows of the scenario ----------------- *)
InitScenario == Initially("start", {ScenarioHeaders}, <<>>, {<<>>}, {NoFrame})

StartScenario == StartWith(1, Cardinality(ScenarioRows))

ReadScenario == ReadFrom(ScenarioRows, Cardinality(ScenarioRows))

NextScenario ==
    StartScenario \/ OpenFile \/ ReadScenario \/ EndOfFile \/ Enrich \/ Finish

SpecScenario == InitScenario /\ [][NextScenario]_vars

(* ------------- build_visualizations and the report, same rows ---------- *)
InitVisual == Initially("load", {{USECOLS}}, <<>>, {<<>>}, {NoFrame})

(* main, lines 280-282: load_dataset, the month column, coerce_numeric *)
LoadDataset ==
    /\ pc = "load"
    /\ pc' = "loaded"
    /\ \E lines \in SeqsUpTo(VisualRows, MaxRows) :
         /\ lines # <<>>
         /\ loaded' = lines
         /\ numeric' = coerce_numeric(add_month_start(load_dataset(lines)))
    /\ UNCHANGED <<error, data_dir, csv_files, chunksize, path, file_vars, run_vars,
                   report_written, headers, history_vars, flag_vars, frame_vars,
                   enrich_vars, summaries, summary>>

(* main, lines 284-303: the four summary tables and the global summary *)
Summarise ==
    /\ pc = "loaded"
    /\ pc' = "summarised"
    /\ summaries' = [monthly |-> summarise_monthly(numeric),
                     carrier |-> summarise_dimension(numeric, <<"carrier">>),
                     origin |-> summarise_dimension(numeric, <<"origin">>),
                     route |-> summarise_dimension(numeric, <<"origin", "dest">>)]
    /\ summary' = compute_summary(numeric)
    /\ UNCHANGED <<error, data_dir, csv_files, chunksize, path, file_vars, run_vars,
                   report_written, headers, history_vars, flag_vars, frame_vars,
                   enrich_vars, loaded, numeric>>

(* generate_flight_delay_report on one file holding the same lines, read as *)
(* one batch                                                                *)
GenerateReport ==
    /\ pc = "summarised"
    /\ pc' = "reported"
    /\ \E cmap \in {resolve_column_map(USECOLS)} :
       \E new \in {process_chunk(EmptyAccumulators,
                       preprocess_chunk(rename(read_chunk(loaded, resolve_usecols(cmap)),
                                               cmap)))} :
       \E frames \in {[monthly |-> enrich_metrics(finalize_table(new.monthly, <<"month">>)),
                       carrier |-> enrich_metrics(finalize_table(new.carrier, <<"OP_CARRIER">>)),
                       origin |-> enrich_metrics(finalize_table(new.origin, <<"ORIGIN">>)),
                       route |-> enrich_metrics(finalize_table(new.route,
                                                               <<"ORIGIN", "DEST">>))]} :
         /\ column_map' = cmap
         /\ usecols' = resolve_usecols(cmap)
         /\ monthly_stats' = new.monthly
         /\ carrier_stats' = new.carrier
         /\ origin_stats' = new.origin
         /\ route_stats' = new.route
         /\ overall_stats' = new.overall
         /\ metrics_present' = new.present
         /\ monthly_df' = frames.monthly
         /\ carrier_df' = frames.carrier
         /\ origin_df' = frames.origin
         /\ route_df' = frames.route
         /\ enrichments' = enrichments + 1
         /\ report' = build_report(frames.monthly, frames.carrier, frames.origin,
                                   frames.route, new.overall, new.present)
         /\ report_written' = TRUE
    /\ UNCHANGED <<error, data_dir, csv_files, chunksize, path, exhausted, headers,
                   history_vars, flag_vars, enrich_vars, visual_vars>>

NextVisual == LoadDataset \/ Summarise \/ GenerateReport

SpecVisual == InitVisual /\ [][NextVisual]_vars

(* ----------------------------- properties ------------------------------ *)
HasDateAlias(header) == \E a \in Range(COLUMN_ALIASES["FL_DATE"]) : a \in header

BadDate(header) == ~HasDateAlias(header)

(* C2: opening a file ends in the schema error exactly when no alias of    *)
(* the date field is in its header, whatever other fields are missing.     *)
C2_SchemaErrorIffNoDateAlias ==
    headers # <<>> =>
        /\ pc \in {"failed", "read"}
        /\ (pc = "failed") <=> ~HasDateAlias(headers[Len(headers)])
        /\ (pc = "failed") <=> (error = "fl_date_not_found")

C2_Witness ==
    /\ pc = "failed"
    /\ error = "fl_date_not_found"
    /\ {"ORIGIN", "ARR_DELAY", "OP_CARRIER"} \subseteq headers[Len(headers)]

AliasPositions(canonical, header) ==
    {i \in 1..Len(COLUMN_ALIASES[canonical]) : COLUMN_ALIASES[canonical][i] \in header}

(* C3: after a header was resolved, every canonical field is mapped to the *)
(* first alias of its list that is in the header, a field without an alias *)
(* in the header is not in the mapping, and the columns to read are the    *)
(* chosen aliases and nothing else.                                        *)
C3_FirstAliasWins ==
    (headers # <<>> /\ pc = "read") =>
        /\ \A canonical \in DOMAIN COLUMN_ALIASES :
              LET at == AliasPositions(canonical, headers[Len(headers)])
              IN IF at = {} THEN canonical \notin DOMAIN column_map
                 ELSE /\ canonical \in DOMAIN column_map
                      /\ \E i \in at :
                            /\ \A j \in at : i <= j
                            /\ column_map[canonical] = COLUMN_ALIASES[canonical][i]
        /\ DOMAIN column_map \subseteq DOMAIN COLUMN_ALIASES
        /\ \A a \in usecols : \E canonical \in DOMAIN column_map : column_map[canonical] = a
        /\ \A canonical \in DOMAIN column_map : column_map[canonical] \in usecols

C3_Witness ==
    /\ pc = "read"
    /\ {"ArrDelay", "ArrDelayMinutes", "FlightDate", "Year"} \subseteq headers[Len(headers)]
    /\ "ARR_DELAY" \notin headers[Len(headers)]
    /\ "OP_CARRIER" \notin DOMAIN column_map

TableOf(dimension) ==
    CASE dimension = "monthly" -> monthly_stats
      [] dimension = "carrier" -> carrier_stats
      [] dimension = "origin" -> origin_stats
      [] dimension = "route" -> route_stats

Dimensions == {"monthly", "carrier", "origin", "route"}

SameTables(acc) ==
    /\ \A dimension \in Dimensions : acc[dimension] = TableOf(dimension)
    /\ acc.overall = overall_stats

(* all the lines read from the current file so far, as one batch *)
OneBatchPerFile ==
    process_chunk(file_base,
                  preprocess_chunk(rename([columns |-> usecols, rows |-> BagToSeq(file_rows)],
                                          column_map)))

(* C1: whatever the split of the lines of a file into batches, the tables  *)
(* and the overall record are those of the same lines taken as one batch.  *)
C1_BatchPartitionInvariance == SameTables(OneBatchPerFile)

(* C4: a file whose header has no date column is the last file the run    *)
(* opens: the run is then failed with the schema error, whatever was       *)
(* merged from the files before it, it does not go on to another file or   *)
(* batch, and no report is written.                                        *)
C4_SchemaErrorAbortsRun ==
    \A i \in 1..Len(headers) :
        BadDate(headers[i]) =>
            /\ i = Len(headers)
            /\ path = i
            /\ pc = "failed"
            /\ error = "fl_date_not_found"
            /\ ~report_written

C4_Witness ==
    /\ pc = "failed"
    /\ error = "fl_date_not_found"
    /\ path = 2
    /\ overall_stats["flights"] > 0
    /\ ~report_written

(* C5: the tables and the overall record are what the same batches give    *)
(* without their rows whose date does not parse.                           *)
C5_BadDateRowsChangeNothing == SameTables(clean)

(* a full batch of two rows, one without a date, the other cancelled "Y"   *)
C5_Witness ==
    /\ pc = "read"
    /\ path = 1
    /\ chunksize = 2
    /\ rows_read = 2
    /\ ~exhausted
    /\ overall_stats["flights"] = 1
    /\ overall_stats["cancelled"] = 1
    /\ overall_stats["arr_delay_count"] = 0

AgreesWithRows(fields) ==
    /\ \A field \in fields : overall_stats[field] = rowwise.overall[field]
    /\ \A dimension \in Dimensions :
          /\ DOMAIN TableOf(dimension) = DOMAIN rowwise[dimension]
          /\ \A key \in DOMAIN TableOf(dimension) : \A field \in fields :
                TableOf(dimension)[key][field] = rowwise[dimension][key][field]

(* C6: in every table and in the overall record the over-15 counts are the *)
(* number of rows whose delay is strictly above 15: a delay of exactly 15  *)
(* adds 0, a delay of 15.01 adds 1.                                        *)
C6_StrictThreshold == AgreesWithRows({"arr_delay_over_15", "dep_delay_over_15"})

(* one row, arrival delay 15 and departure delay 15.01 *)
C6_Witness ==
    /\ rows_read = 1
    /\ overall_stats["flights"] = 1
    /\ overall_stats["arr_delay_sum"] = 1500
    /\ overall_stats["arr_delay_over_15"] = 0
    /\ overall_stats["dep_delay_sum"] = 1501
    /\ overall_stats["dep_delay_over_15"] = 1

(* C7: a row with a date adds 1 to flights, and its delay adds to the sum  *)
(* and the count only when it is a number: a missing or unparsable delay   *)
(* adds nothing and is not a delay of zero.                                *)
C7_MissingDelayExcluded ==
    /\ AgreesWithRows({"flights", "arr_delay_sum", "arr_delay_count",
                       "dep_delay_sum", "dep_delay_count"})
    /\ \A field \in {"arr_delay_over_15", "dep_delay_over_15"} :
          overall_stats[field] = rowwise.overall[field]

(* one row with a date, an empty arrival delay, a departure delay "n/a" *)
C7_Witness ==
    /\ rows_read = 1
    /\ {"ARR_DELAY", "DEP_DELAY"} \subseteq DOMAIN column_map
    /\ overall_stats["flights"] = 1
    /\ overall_stats["arr_delay_count"] = 0
    /\ overall_stats["dep_delay_count"] = 0
    /\ overall_stats["arr_delay_sum"] = 0

TruthyText == {"Y", "yes", "True", "t", "1"}

UnrecognizedText == {"maybe", "N"}

(* C8: normalize_flag gives 1 for each truthy text value and 0 for each    *)
(* unrecognized text value, whatever the other values of the batch are.    *)
C8_FlagPerValue ==
    pc = "flagged" =>
        /\ Len(normalized) = Len(series)
        /\ \A i \in 1..Len(series) :
              /\ series[i] \in TruthyText => normalized[i] = 1
              /\ series[i] \in UnrecognizedText => normalized[i] = 0

TotalOf(table, field) == SumSet(DOMAIN table, [key \in DOMAIN table |-> table[key][field]])

(* C9: the keys of the carrier, origin and route tables and their flights  *)
(* are those of the rows whose columns of the dimension are resolved and   *)
(* filled; the other rows count in the monthly table and the overall       *)
(* record, so the flights of a dimension never exceed the overall flights. *)
C9_NullDimensionRows ==
    /\ \A dimension \in Dimensions :
          /\ DOMAIN TableOf(dimension) = DOMAIN rowwise[dimension]
          /\ \A key \in DOMAIN TableOf(dimension) :
                TableOf(dimension)[key]["flights"] = rowwise[dimension][key]["flights"]
          /\ TotalOf(TableOf(dimension), "flights") <= overall_stats["flights"]
    /\ overall_stats["flights"] = rowwise.overall["flights"]
    /\ TotalOf(monthly_stats, "flights") = overall_stats["flights"]

(* one row with an origin but neither a carrier nor a destination *)
C9_Witness ==
    /\ {"OP_CARRIER", "ORIGIN", "DEST"} \subseteq DOMAIN column_map
    /\ overall_stats["flights"] = 1
    /\ DOMAIN monthly_stats = {<<"2024-01">>}
    /\ DOMAIN origin_stats = {<<"JFK">>}
    /\ carrier_stats = <<>>
    /\ route_stats = <<>>

(* C10: each metric of the overall record is the sum of that metric over   *)
(* the keys of the monthly table.                                          *)
C10_OverallIsMonthlyTotal ==
    \A field \in METRIC_FIELDS : overall_stats[field] = TotalOf(monthly_stats, field)

(* two rows of different months, read in two batches *)
C10_Witness ==
    /\ chunksize = 1
    /\ DOMAIN monthly_stats = {<<"2024-01">>, <<"2024-02">>}
    /\ overall_stats["flights"] = 2
    /\ overall_stats["arr_delay_sum"] = 3000
    /\ overall_stats["cancelled"] = 0

(* the denominator of each derived ratio *)
DenominatorOf ==
    [avg_arr_delay |-> "arr_delay_count", avg_dep_delay |-> "dep_delay_count",
     on_time_rate |-> "arr_delay_count", departure_delay_rate |-> "dep_delay_count",
     cancellation_rate |-> "flights", diversion_rate |-> "flights"]

Enriched == pc \in {"enriched", "enriched_twice"}

(* C11: in every row of an enriched table each of the six ratios is there, *)
(* it is null exactly when its denominator is 0, and a ratio that is not   *)
(* null is a fraction with a denominator that is not 0.                    *)
C11_NullIffZeroDenominator ==
    Enriched =>
        \A key \in DOMAIN result.data : \A ratio \in DOMAIN DenominatorOf :
            /\ ratio \in DOMAIN result.data[key]
            /\ (result.data[key][ratio] = {}) <=> (df.data[key][DenominatorOf[ratio]] = 0)
            /\ \A q \in result.data[key][ratio] : q[2] # 0

(* a key without flights next to a key with arrival delays *)
C11_Witness ==
    /\ pc = "enriched"
    /\ DOMAIN result.data = {<<"AA">>, <<"DL">>}
    /\ df.data[<<"DL">>]["flights"] = 0
    /\ result.data[<<"DL">>]["cancellation_rate"] = {}
    /\ result.data[<<"DL">>]["on_time_rate"] = {}
    /\ result.data[<<"AA">>]["on_time_rate"] # {}

(* the value n/d of a fraction equals a/b *)
IsFraction(q, a, b) == q[1] * b = a * q[2]

(* C12: in every row with the denominators not 0, the on-time rate is      *)
(* 1 - arr_delay_over_15 / arr_delay_count, the cancellation rate is       *)
(* cancelled / flights and the diversion rate is diverted / flights.       *)
C12_RateDefinitions ==
    Enriched =>
        \A key \in DOMAIN result.data :
            LET row == df.data[key]
                out == result.data[key]
            IN /\ row["arr_delay_count"] # 0 =>
                    /\ out["on_time_rate"] # {}
                    /\ \A q \in out["on_time_rate"] :
                          IsFraction(q, row["arr_delay_count"] - row["arr_delay_over_15"],
                                     row["arr_delay_count"])
               /\ row["flights"] # 0 =>
                    /\ out["cancellation_rate"] # {}
                    /\ out["diversion_rate"] # {}
                    /\ \A q \in out["cancellation_rate"] :
                          IsFraction(q, row["cancelled"], row["flights"])
                    /\ \A q \in out["diversion_rate"] :
                          IsFraction(q, row["diverted"], row["flights"])

(* two flights, one arrival delay known and above 15: the on-time rate is 0 *)
C12_Witness ==
    /\ pc = "enriched"
    /\ <<"AA">> \in DOMAIN result.data
    /\ df.data[<<"AA">>]["flights"] = 2
    /\ df.data[<<"AA">>]["arr_delay_count"] = 1
    /\ df.data[<<"AA">>]["arr_delay_over_15"] = 1
    /\ df.data[<<"AA">>]["cancelled"] = 1
    /\ \E q \in result.data[<<"AA">>]["on_time_rate"] : q[1] = 0

(* C13: enriching an enriched table gives the same table, the sum and      *)
(* count fields of the result are those of the table passed in, and the    *)
(* table passed in is not modified.                                        *)
C13_EnrichIdempotent ==
    [][/\ df' = df
       /\ (pc = "enriched" /\ pc' = "enriched_twice") => result' = result
       /\ pc' \in {"enriched", "enriched_twice"} =>
             /\ DOMAIN result'.data = DOMAIN df.data
             /\ \A key \in DOMAIN df.data : \A field \in METRIC_FIELDS :
                   result'.data[key][field] = df.data[key][field]]_vars

C13_Witness ==
    /\ pc = "enriched_twice"
    /\ DOMAIN result.data = {<<"AA">>, <<"DL">>}
    /\ result.data[<<"AA">>]["avg_arr_delay"] = {<<2000, 1>>}
    /\ result.data[<<"DL">>]["avg_arr_delay"] = {<<500, 1>>}

Frames == {monthly_df, carrier_df, origin_df, route_df}

Rates == {"on_time_rate", "departure_delay_rate", "cancellation_rate", "diversion_rate"}

(* C14: every rate of every key of every enriched table that is not null   *)
(* is a fraction between 0 and 1.                                          *)
C14_RatesInUnitInterval ==
    \A frame \in Frames : \A key \in DOMAIN frame.data :
        \A rate \in Rates \cap DOMAIN frame.data[key] :
            \A q \in frame.data[key][rate] : q[2] > 0 /\ 0 <= q[1] /\ q[1] <= q[2]

(* a month of two flights, cancelled "Y" and "1", one arrival delay of 15 *)
C14_Witness ==
    /\ pc = "enriched"
    /\ <<"2024-01">> \in DOMAIN monthly_df.data
    /\ monthly_df.data[<<"2024-01">>]["on_time_rate"] = {<<1, 1>>}
    /\ monthly_df.data[<<"2024-01">>]["cancellation_rate"] = {<<2, 2>>}
    /\ monthly_df.data[<<"2024-01">>]["departure_delay_rate"] = {<<1, 1>>}

(* C15: no step lowers a count field of the overall record or of a key of  *)
(* a table, and no step removes a key.                                     *)
C15_CountsNeverDecrease ==
    [][/\ \A field \in COUNT_FIELDS : overall_stats'[field] >= overall_stats[field]
       /\ \A dimension \in Dimensions : \A key \in DOMAIN TableOf(dimension) :
             /\ key \in DOMAIN TableOf(dimension)'
             /\ \A field \in COUNT_FIELDS :
                   TableOf(dimension)'[key][field] >= TableOf(dimension)[key][field]]_vars

(* a month merged twice, the second batch without an arrival delay *)
C15_Witness ==
    /\ chunksize = 1
    /\ rows_read = 2
    /\ DOMAIN monthly_stats = {<<"2024-01">>}
    /\ monthly_stats[<<"2024-01">>]["flights"] = 2
    /\ monthly_stats[<<"2024-01">>]["arr_delay_count"] = 1
    /\ overall_stats["arr_delay_count"] = 1
    /\ overall_stats["cancelled"] = 1

(* the run that read the three rows of the scenario as one batch *)
ScenarioRun ==
    /\ pc = "done"
    /\ chunksize = Len(ScenarioBatch)
    /\ file_rows = SeqToBag(read_chunk(ScenarioBatch, usecols).rows)

(* C16: after the three rows of the scenario, January has 2 flights, one   *)
(* arrival delay of 20 that is over 15 and 1 cancellation, February has 1  *)
(* flight, one arrival delay of 10 that is not over 15 and no cancellation,*)
(* the on-time rate of AA is 0 and of DL is 1, and the report gives the    *)
(* overall cancellation rate as 1/3.                                       *)
C16_BoundaryScenario ==
    ScenarioRun =>
        /\ DOMAIN monthly_stats = {<<"2024-01">>, <<"2024-02">>}
        /\ LET january == monthly_stats[<<"2024-01">>]
               february == monthly_stats[<<"2024-02">>]
           IN  /\ january.flights = 2
               /\ january.arr_delay_count = 1
               /\ january.arr_delay_sum = NumberText["20"]
               /\ january.arr_delay_over_15 = 1
               /\ january.cancelled = 1
               /\ february.flights = 1
               /\ february.arr_delay_count = 1
               /\ february.arr_delay_sum = NumberText["10"]
               /\ february.arr_delay_over_15 = 0
               /\ february.cancelled = 0
        /\ DOMAIN carrier_df.data = {<<"AA">>, <<"DL">>}
        /\ carrier_df.data[<<"AA">>].on_time_rate # {}
        /\ \A q \in carrier_df.data[<<"AA">>].on_time_rate : IsFraction(q, 0, 1)
        /\ carrier_df.data[<<"DL">>].on_time_rate # {}
        /\ \A q \in carrier_df.data[<<"DL">>].on_time_rate : IsFraction(q, 1, 1)
        /\ \E line \in report :
               /\ line.text = "Cancellation rate"
               /\ line.value # {}
               /\ \A q \in line.value : IsFraction(q, 1, Len(ScenarioBatch))

C16_Witness ==
    /\ ScenarioRun
    /\ "Cancelled" \in usecols
    /\ report_written

(* C17: whatever the spellings of the headers of the files read so far,    *)
(* the current file resolves to the canonical fields that its header in    *)
(* canonical spelling resolves to, and the four tables and the overall     *)
(* record are those of the same lines read from files whose headers are    *)
(* all in the canonical spelling.                                          *)
C17_SchemaDrift ==
    /\ pc = "read" =>
           DOMAIN column_map =
               DOMAIN resolve_column_map(canonical_header(headers[Len(headers)]))
    /\ SameTables(canon)

(* a file with ArrDelay/Origin headers, then one with ARR_DELAY/ORIGIN     *)
(* headers, whose rows have met in one key of the origin table             *)
C17_Witness ==
    /\ pc = "done"
    /\ Len(headers) = 2
    /\ {"ArrDelay", "Origin"} \subseteq headers[1]
    /\ {"ARR_DELAY", "ORIGIN"} \subseteq headers[2]
    /\ <<"JFK">> \in DOMAIN origin_stats
    /\ origin_stats[<<"JFK">>].flights = 2
    /\ origin_stats[<<"JFK">>].arr_delay_count = 2

(* every line read so far was dropped for its date *)
EveryRowDropped == rowwise.overall.flights = 0

(* C18: a run that finds no CSV file has failed and has written no report; *)
(* a run over files of which every row was dropped does not fail on a      *)
(* batch, and once done it has written a report that says that no flights  *)
(* were processed.                                                         *)
C18_EmptyInput ==
    /\ error = "no_csv_files" => pc = "failed" /\ ~report_written /\ report = {}
    /\ pc = "failed" => rows_read = 0 \/ error = "fl_date_not_found"
    /\ pc = "done" /\ EveryRowDropped =>
           /\ report_written
           /\ Line("No flights were processed", {}) \in report
           /\ \A line \in report : line.text # "## Overall performance"

(* a finished run whose files had rows, all of them dropped *)
C18_Witness ==
    /\ pc = "done"
    /\ rows_read > 0
    /\ Len(headers) = Len(csv_files)
    /\ EveryRowDropped
    /\ Line("No flights were processed", {}) \in report

(* the metrics whose source column the resolver found in a file opened so far *)
MetricsResolved ==
    UNION {COLUMN_TO_METRICS[c] :
              c \in {d \in DOMAIN COLUMN_TO_METRICS :
                        \E i \in 1..Len(headers) : d \in DOMAIN resolve_column_map(headers[i])}}

(* C19: at the end of a run the metrics flagged in metrics_present are the  *)
(* metrics whose source column was resolved in at least one of the files    *)
(* processed, and no step of a run removes a flag.                          *)
C19_MetricsPresent ==
    /\ [](pc = "done" => metrics_present = MetricsResolved)
    /\ [][metrics_present \subseteq metrics_present']_vars

(* the four enriched tables *)
EnrichedTables == <<monthly_df, carrier_df, origin_df, route_df>>

FieldsWithoutColumn(header) ==
    UNION {COLUMN_TO_METRICS[c] :
              c \in DOMAIN COLUMN_TO_METRICS \ DOMAIN resolve_column_map(header)}

(* C21: in every merge of the partial of a batch into the origin table, the *)
(* keys afterwards are the stored keys and the keys of the partial; for a   *)
(* stored key of the partial every field of the partial is added to the     *)
(* stored field; for a new key the record is the partial with its missing   *)
(* fields zero; the record of a key that is not in the partial is as it     *)
(* was; and the fields whose source column the batch does not have are as   *)
(* they were for every key.                                                 *)
C21_MergeRule ==
    [][pc' \in {"merged", "merged_twice"} =>
         LET table == origin_stats
             after == origin_stats'
             grouped == df'
             absent == FieldsWithoutColumn(headers'[1])
         IN /\ DOMAIN after = DOMAIN table \cup DOMAIN grouped.data
            /\ absent \cap grouped.columns = {}
            /\ \A key \in DOMAIN after :
                 /\ key \in DOMAIN grouped.data /\ key \in DOMAIN table =>
                        \A field \in grouped.columns :
                            after[key][field] = table[key][field] + grouped.data[key][field]
                 /\ key \in DOMAIN grouped.data /\ key \notin DOMAIN table =>
                        \A field \in METRIC_FIELDS :
                            after[key][field] = IF field \in grouped.columns
                                                THEN grouped.data[key][field] ELSE 0
                 /\ key \notin DOMAIN grouped.data => after[key] = table[key]
                 /\ key \in DOMAIN table =>
                        \A field \in absent : after[key][field] = table[key][field]]_vars

(* a second merge whose partial has a stored key and lacks another, into a  *)
(* table with departure delays, from a batch without departure delays       *)
C21_Witness ==
    /\ pc = "merged_twice"
    /\ <<"JFK">> \in DOMAIN df.data
    /\ <<"ATL">> \in DOMAIN origin_stats \ DOMAIN df.data
    /\ origin_stats[<<"JFK">>].flights > df.data[<<"JFK">>].flights
    /\ "dep_delay_count" \notin df.columns
    /\ origin_stats[<<"JFK">>].dep_delay_count > 0

(* two ratios are both null, or both fractions of the same value *)
SameRatio(a, b) ==
    \/ a = {} /\ b = {}
    \/ /\ a # {} /\ b # {}
       /\ \A p \in a, q \in b : p[2] # 0 /\ q[2] # 0 /\ p[1] * q[2] = q[1] * p[2]

(* the key of the monthly summary for a key of the monthly table *)
MonthStart(key) == <<TimestampText[key[1]]>>

(* C22: for the same lines, the on-time rate of every key of the monthly,   *)
(* carrier, origin and route summaries of build_visualizations is the       *)
(* on-time rate enrich_metrics gives that key, and the on-time rate of the  *)
(* global summary is 1 - arr_delay_over_15 / arr_delay_count of the overall *)
(* record.                                                                  *)
C22_SameOnTimeRate ==
    pc = "reported" =>
        /\ DOMAIN summaries.monthly = {MonthStart(key) : key \in DOMAIN monthly_df.data}
        /\ \A key \in DOMAIN monthly_df.data :
               SameRatio(summaries.monthly[MonthStart(key)].on_time_rate,
                         monthly_df.data[key].on_time_rate)
        /\ DOMAIN summaries.carrier = DOMAIN carrier_df.data
        /\ \A key \in DOMAIN carrier_df.data :
               SameRatio(summaries.carrier[key].on_time_rate,
                         carrier_df.data[key].on_time_rate)
        /\ DOMAIN summaries.origin = DOMAIN origin_df.data
        /\ \A key \in DOMAIN origin_df.data :
               SameRatio(summaries.origin[key].on_time_rate,
                         origin_df.data[key].on_time_rate)
        /\ DOMAIN summaries.route = DOMAIN route_df.data
        /\ \A key \in DOMAIN route_df.data :
               SameRatio(summaries.route[key].on_time_rate,
                         route_df.data[key].on_time_rate)
        /\ SameRatio(summary.on_time_rate,
                     one_minus(safe_divide(overall_stats["arr_delay_over_15"],
                                           overall_stats["arr_delay_count"])))

(* the over-15 count is at most the count of delays, at most the flights *)
CountsOrdered(record) ==
    /\ record["arr_delay_over_15"] <= record["arr_delay_count"]
    /\ record["arr_delay_count"] <= record["flights"]
    /\ record["dep_delay_over_15"] <= record["dep_delay_count"]
    /\ record["dep_delay_count"] <= record["flights"]

(* C23: in every state of a run, so after every batch, the record of every *)
(* key of the four tables and the overall record have                      *)
(* arr_delay_over_15 <= arr_delay_count <= flights and                     *)
(* dep_delay_over_15 <= dep_delay_count <= flights.                        *)
C23_CountsOrdered ==
    /\ CountsOrdered(overall_stats)
    /\ \A dimension \in Dimensions :
           \A key \in DOMAIN TableOf(dimension) : CountsOrdered(TableOf(dimension)[key])

(* a month with 2 flights, one without an arrival delay and one with a    *)
(* delay that is not over 15: the three arrival counts all differ          *)
C23_Witness ==
    /\ pc = "read"
    /\ <<"2024-01">> \in DOMAIN monthly_stats
    /\ monthly_stats[<<"2024-01">>]["arr_delay_over_15"]
           < monthly_stats[<<"2024-01">>]["arr_delay_count"]
    /\ monthly_stats[<<"2024-01">>]["arr_delay_count"]
           < monthly_stats[<<"2024-01">>]["flights"]
    /\ monthly_stats[<<"2024-01">>]["dep_delay_count"] > 0
    /\ overall_stats["arr_delay_count"] < overall_stats["flights"]

====
